---- MODULE Spec2Model ----

(***************************************************************************)
(* The completion streaming bridge of ai-playground:                       *)
(* ChatController.HandleChat (backend/controllers/chat_controller.go) and  *)
(* OpenRouterService.Chat (the services package), over the GORM store of   *)
(* models.Chat and models.Message rows, together with the handlers that   *)
(* star a Turn, delete a conversation and fork a conversation.             *)
(*                                                                         *)
(* Every database statement, the upstream HTTP call, every read of one     *)
(* line from the upstream body and every write of one line to the caller   *)
(* is one step.  Byte strings are sequences of tokens: the newline byte,   *)
(* the "data: " prefix, the "[DONE]" payload, a JSON object, and text that *)
(* is not JSON.  No token but NL contains a newline byte.                  *)
(***************************************************************************)
EXTENDS Integers, Sequences, FiniteSets, TLC

VARIABLES
    chats,      \* table chats: row id -> models.Chat (ids are 1..Len)
    messages,   \* table messages: row id -> models.Message (ids are 1..Len)
    dblog,      \* the statements of the submissions, in execution order
    sub,        \* the submissions: id -> the locals of HandleChat/Chat
    ops         \* the requests to the other handlers: id -> their locals

vars == <<chats, messages, dblog, sub, ops>>

(***************************************************************************)
(* Bounds of the model.                                                    *)
(***************************************************************************)
\* the upstream body holds at most MaxLines newline-terminated lines
MaxLines == 3

\* and at most MaxPairLines when two submissions run at once
MaxPairLines == 1

(***************************************************************************)
(* Bytes.                                                                  *)
(***************************************************************************)
NL == [t |-> "LF"]
PFX == [t |-> "data: "]
DONE == [t |-> "[DONE]"]
JUNK == [t |-> "{oops"]

\* a JSON object of the stream: the delta.content of each element of
\* "choices", and "usage": absent (<<>>) or one object <<u>>, u a function
\* from the keys that are present to their numbers
Json(choices, usage) == [t |-> "json", choices |-> choices, usage |-> usage]

\* the lines (without their newline) the upstream endpoint may send
LBlank == <<>>
LDone == <<PFX, DONE>>
LHel == <<PFX, Json(<<"Hel">>, <<>>)>>
LMulti == <<PFX, Json(<<"lo", "ALT">>, <<>>)>>
LUsage == <<PFX, Json(<<>>, <<[prompt_tokens |-> 1, completion_tokens |-> 2, total_tokens |-> 3]>>)>>
LUsagePart == <<PFX, Json(<<>>, <<[completion_tokens |-> 5]>>)>>
LUsageZero == <<PFX, Json(<<>>, <<[prompt_tokens |-> 0, completion_tokens |-> 0, total_tokens |-> 0]>>)>>
LJunk == <<PFX, JUNK>>
LBare == <<Json(<<"no">>, <<>>)>>

AllLines == {LBlank, LDone, LHel, LMulti, LUsage, LUsagePart, LUsageZero, LJunk, LBare}
BasicLines == {LBlank, LDone, LHel, LUsage}

\* what may follow the last newline of the body: nothing, or an unterminated line
LLast == <<PFX, Json(<<"!">>, <<[prompt_tokens |-> 7, completion_tokens |-> 8, total_tokens |-> 15]>>)>>
Tails == {<<>>, LLast}

(***************************************************************************)
(* Requests.                                                               *)
(***************************************************************************)
Turn(id, role, content) == [ID |-> id, Role |-> role, Content |-> content]

InputLists ==
    { <<>>,
      <<Turn(0, "user", "hi")>>,
      <<Turn(1, "user", "old"), Turn(2, "assistant", "re"), Turn(0, "user", "hi")>>,
      <<Turn(0, "user", "hi"), Turn(0, "assistant", "yo"), Turn(0, "user", "more")>>,
      <<Turn(2, "assistant", "re")>> }

\* conversation ids of a request: absent, live, soft-deleted, never created
ChatIds == {0, 1, 2, 3}

ChatRequest(model, msgs, stream, chatId) ==
    [Model |-> model, Messages |-> msgs, Stream |-> stream, ChatID |-> chatId]

Requests ==
    { ChatRequest("m1", m, s, c) : m \in InputLists, s \in BOOLEAN, c \in ChatIds }

\* two requests that name the same live conversation
PairRequests ==
    << ChatRequest("m1", <<Turn(1, "user", "old"), Turn(0, "user", "hi")>>, TRUE, 1),
       ChatRequest("m1", <<Turn(0, "user", "yo")>>, TRUE, 1) >>

\* the same request, a stored turn sent again, with the stream flag set and
\* not set
FlagRequests ==
    << ChatRequest("m1", <<Turn(1, "user", "old")>>, TRUE, 1),
       ChatRequest("m1", <<Turn(1, "user", "old")>>, FALSE, 1) >>

\* a request that names the live conversation 1
StoreRequest == ChatRequest("m1", <<Turn(0, "user", "hi")>>, TRUE, 1)

\* the scenario of the specification: one new user turn, no conversation id
RelayRequests ==
    { ChatRequest("m1", <<Turn(0, "user", "hi")>>, TRUE, 0) }

\* the lines sent in answer to each of two concurrent requests
PairLines == {LLast}

\* the lines of a reply to a request with stream (a record with content and
\* usage) and to one without (such a record, or a JSON object without the
\* "data: " prefix)
FlagLines == << {LLast}, {LLast, LBare} >>

(***************************************************************************)
(* The store.                                                              *)
(***************************************************************************)
ChatRow(model, parent, forkMsg) ==
    [ModelName |-> model, Starred |-> FALSE, ParentID |-> parent,
     ForkMessageID |-> forkMsg, Deleted |-> FALSE]

MessageRow(chatId, role, content, model) ==
    [ChatID |-> chatId, Role |-> role, Content |-> content, ModelName |-> model,
     Starred |-> FALSE, PromptTokens |-> 0, CompletionTokens |-> 0,
     TotalTokens |-> 0, Deleted |-> FALSE]

\* the lookup without the soft-delete scope
FindChatUnscoped(id) == id \in 1..Len(chats)

\* DB.First(&chat, id): the row with this primary key that is not soft-deleted
FindChat(id) == id \in 1..Len(chats) /\ ~chats[id].Deleted

InitChats ==
    << ChatRow("m1", 0, 0), [ChatRow("m1", 0, 0) EXCEPT !.Deleted = TRUE] >>

InitMessages ==
    << MessageRow(1, "user", "old", "m1"),
       [MessageRow(1, "assistant", "re", "m1") EXCEPT
           !.PromptTokens = 1, !.CompletionTokens = 1, !.TotalTokens = 2] >>

\* a store in which the deleted conversation 2 owns a Turn that was created
\* between the Turns of conversation 1
StoreMessages ==
    << MessageRow(1, "user", "old", "m1"),
       MessageRow(2, "user", "gone", "m1"),
       [MessageRow(1, "assistant", "re", "m1") EXCEPT
           !.PromptTokens = 1, !.CompletionTokens = 1, !.TotalTokens = 2],
       MessageRow(1, "user", "next", "m1") >>

Stmt(s, op, id, ok) == [sub |-> s, op |-> op, id |-> id, ok |-> ok]

(***************************************************************************)
(* The locals of one submission.                                           *)
(***************************************************************************)
NoError == <<>>
Error(kind, text, code) == <<[kind |-> kind, text |-> text, code |-> code]>>

\* req is the request bound by HandleChat; wire is the set of lines the
\* upstream endpoint may send in answer to it
Locals(req, wire) ==
    [pc |-> "idle", entry |-> "", req |-> req, wire |-> wire, maxLines |-> MaxLines,
     chatID |-> 0, chat |-> 0, header |-> 0, msgIdx |-> 1,
     apiReq |-> <<>>, calls |-> 0, status |-> 0, errBody |-> <<>>, sse |-> FALSE,
     assistantMessage |-> 0,
     upstream |-> <<>>, line |-> <<>>, responseBuffer |-> <<>>, written |-> <<>>,
     fullResponse |-> "", promptTokens |-> 0, completionTokens |-> 0,
     totalTokens |-> 0,
     err |-> NoError, errorJSON |-> FALSE]

\* the ids submissions may have; the submissions of a run are DOMAIN sub
Subs == {1, 2}

Set(s, l) == sub' = [sub EXCEPT ![s] = l]

\* return fmt.Errorf(...) from Chat; HandleChat then answers c.JSON(500, ...)
Fail(l, kind, text, code) ==
    [l EXCEPT !.pc = "failed", !.err = Error(kind, text, code),
              !.errorJSON = (l.entry = "HandleChat")]

(***************************************************************************)
(* Parsing of the accumulated response (Chat, after the relay loop).       *)
(***************************************************************************)
\* bytes.Split(b, "\n"): the pieces between the newlines, the last one included
RECURSIVE SplitFrom(_, _, _)
SplitFrom(b, i, cur) ==
    IF i > Len(b) THEN <<cur>>
    ELSE IF b[i] = NL THEN <<cur>> \o SplitFrom(b, i + 1, <<>>)
    ELSE SplitFrom(b, i + 1, Append(cur, b[i]))

Split(b) == SplitFrom(b, 1, <<>>)

\* bytes.HasPrefix(line, "data: ")
HasPrefix(line) == Len(line) > 0 /\ line[1] = PFX

\* bytes.TrimPrefix(line, "data: "), for a line that has the prefix
TrimPrefix(line) == SubSeq(line, 2, Len(line))

\* json.Unmarshal(data, &streamResponse) returns nil
Decodable(data) == Len(data) = 1 /\ data[1].t = "json"

\* a key of a decoded JSON object, the zero value when it is absent
Field(u, k) == IF k \in DOMAIN u THEN u[k] ELSE 0
FieldString(u, k) == IF k \in DOMAIN u THEN u[k] ELSE ""

\* UsageData as decoded from a "usage" object
UsageData(u) ==
    [PromptTokens |-> Field(u, "prompt_tokens"),
     CompletionTokens |-> Field(u, "completion_tokens"),
     TotalTokens |-> Field(u, "total_tokens")]

\* the StreamResponse json.Unmarshal fills from a decodable payload
Unmarshal(data) ==
    [Choices |-> data[1].choices,
     Usage |-> IF data[1].usage = <<>> THEN <<>> ELSE <<UsageData(data[1].usage[1])>>]

Parsed(full, p, c, t) ==
    [fullResponse |-> full, promptTokens |-> p, completionTokens |-> c, totalTokens |-> t]

\* a count is taken only when it is not zero
CaptureUsageNonZero(acc, sr) ==
    IF sr.Usage # <<>>
    THEN [acc EXCEPT
            !.promptTokens = IF sr.Usage[1].PromptTokens # 0 THEN sr.Usage[1].PromptTokens ELSE @,
            !.completionTokens = IF sr.Usage[1].CompletionTokens # 0 THEN sr.Usage[1].CompletionTokens ELSE @,
            !.totalTokens = IF sr.Usage[1].TotalTokens # 0 THEN sr.Usage[1].TotalTokens ELSE @]
    ELSE acc

\* if streamResponse.Usage != nil { promptTokens = ...; ... }
CaptureUsage(acc, sr) ==
    IF sr.Usage # <<>>
    THEN [acc EXCEPT !.promptTokens = sr.Usage[1].PromptTokens,
                     !.completionTokens = sr.Usage[1].CompletionTokens,
                     !.totalTokens = sr.Usage[1].TotalTokens]
    ELSE acc

\* fullResponse = content, for +=
CaptureContentAssign(acc, sr) ==
    IF Len(sr.Choices) > 0
    THEN [acc EXCEPT !.fullResponse = sr.Choices[1]]
    ELSE acc

\* if len(streamResponse.Choices) > 0 { fullResponse += Choices[0].Delta.Content }
CaptureContent(acc, sr) ==
    IF Len(sr.Choices) > 0
    THEN [acc EXCEPT !.fullResponse = @ \o sr.Choices[1]]
    ELSE acc

\* a loop that decodes a line whether or not it has the prefix
ParseLineAnyRecord(acc, line) ==
    IF Len(line) = 0 THEN acc
    ELSE LET data == IF HasPrefix(line) THEN TrimPrefix(line) ELSE line IN
         IF data = <<DONE>> THEN acc
         ELSE IF ~Decodable(data) THEN acc
         ELSE CaptureContent(CaptureUsage(acc, Unmarshal(data)), Unmarshal(data))

\* one iteration of the loop over responseLines
ParseLine(acc, line) ==
    IF Len(line) = 0 THEN acc
    ELSE IF HasPrefix(line)
    THEN LET data == TrimPrefix(line) IN
         IF data = <<DONE>> THEN acc
         ELSE IF ~Decodable(data) THEN acc
         ELSE CaptureContent(CaptureUsage(acc, Unmarshal(data)), Unmarshal(data))
    ELSE acc

RECURSIVE ParseFrom(_, _, _)
ParseFrom(acc, lines, i) ==
    IF i > Len(lines) THEN acc
    ELSE ParseFrom(ParseLine(acc, lines[i]), lines, i + 1)

\* fullResponse and the three token counts after the loop
ParseResponse(buffer) == ParseFrom(Parsed("", 0, 0, 0), Split(buffer), 1)

\* only the total is looked at
UsageExtractedTotal(l) == l.totalTokens # 0

\* if promptTokens != 0 || completionTokens != 0 || totalTokens != 0
UsageExtracted(l) ==
    l.promptTokens # 0 \/ l.completionTokens # 0 \/ l.totalTokens # 0

(***************************************************************************)
(* The upstream endpoint.                                                  *)
(***************************************************************************)
Response(connected, status, errBody) ==
    [connected |-> connected, status |-> status, errBody |-> errBody]

\* client.Do fails, or answers with a status; a failure status comes with a
\* body that is an {error: {message, code}} object (keys may be absent) or not
UpstreamResponses ==
    { Response(FALSE, 0, <<>>),
      Response(TRUE, 200, <<>>),
      Response(TRUE, 204, <<>>),
      Response(TRUE, 429, <<[message |-> "rate limited", code |-> 429]>>),
      Response(TRUE, 429, <<>>),
      Response(TRUE, 502, <<[message |-> "bad gateway"]>>),
      Response(TRUE, 500, <<[message |-> "overloaded", code |-> 529]>>) }

\* the number of newline bytes in b
RECURSIVE CountNL(_)
CountNL(b) ==
    IF b = <<>> THEN 0 ELSE (IF Head(b) = NL THEN 1 ELSE 0) + CountNL(Tail(b))

\* reader.ReadBytes('\n'): a line with its newline, or what is left of the
\* body with io.EOF, or a failure of the connection
ReadOutcomes(l) ==
    { [line |-> k \o <<NL>>, err |-> "nil"] :
        k \in IF CountNL(l.upstream) < l.maxLines THEN l.wire ELSE {} }
    \cup { [line |-> t, err |-> "EOF"] : t \in Tails }
    \cup { [line |-> <<>>, err |-> "unexpected EOF"] }

Init ==
    /\ chats = InitChats
    /\ messages = InitMessages
    /\ dblog = <<>>
    /\ sub \in [{1} -> {Locals(r, BasicLines) : r \in Requests}]
    /\ ops = <<>>

\* two submissions in flight at once
InitPair ==
    /\ chats = InitChats
    /\ messages = InitMessages
    /\ dblog = <<>>
    /\ sub = [s \in {1, 2} |->
                [Locals(PairRequests[s], PairLines) EXCEPT !.maxLines = MaxPairLines]]
    /\ ops = <<>>

\* one run with stream=true and one with stream=false, side by side
InitFlag ==
    /\ chats = InitChats
    /\ messages = InitMessages
    /\ dblog = <<>>
    /\ sub = [s \in {1, 2} |->
                [Locals(FlagRequests[s], FlagLines[s]) EXCEPT !.maxLines = MaxPairLines]]
    /\ ops = <<>>

InitRelay ==
    /\ chats = InitChats
    /\ messages = InitMessages
    /\ dblog = <<>>
    /\ sub \in [{1} -> {Locals(r, AllLines) : r \in RelayRequests}]
    /\ ops = <<>>

(***************************************************************************)
(* ChatController.HandleChat up to its call of Chat.                       *)
(***************************************************************************)
\* chatReq.ChatID passed for chat.ID
ChatArgumentOfRequest(req, chatId) == req.ChatID

\* the chatID argument of cc.openRouterService.Chat(chatReq, chat.ID, c.Writer)
ChatArgument(req, chatId) == chatId

\* a handler that sets X-Chat-ID for a conversation it looked up as well
HeaderAlways(created, id) == id

\* c.Header("X-Chat-ID", ...) is reached only in the branch that creates the
\* conversation; 0 stands for a header that is not set
XChatID(created, id) == IF created THEN id ELSE 0

HandleChat(s) ==
    LET l == sub[s]
        req == l.req
        h == [l EXCEPT !.entry = "HandleChat"]
        id == Len(chats) + 1
    IN  /\ s \in DOMAIN sub
        /\ UNCHANGED ops
        /\ l.pc = "idle"
        /\ UNCHANGED messages
        /\ IF req.ChatID # 0
           THEN /\ UNCHANGED chats
                /\ dblog' = Append(dblog, Stmt(s, "find chat", req.ChatID, FindChat(req.ChatID)))
                /\ IF FindChat(req.ChatID)
                   THEN Set(s, [h EXCEPT !.chatID = ChatArgument(req, req.ChatID),
                                         !.header = XChatID(FALSE, req.ChatID),
                                         !.pc = "load"])
                   ELSE Set(s, Fail(h, "error finding chat", "", 0))
           ELSE \E ok \in BOOLEAN :
                /\ dblog' = Append(dblog, Stmt(s, "create chat", id, ok))
                /\ IF ok
                   THEN /\ chats' = Append(chats, ChatRow(req.Model, 0, 0))
                        /\ Set(s, [h EXCEPT !.chatID = ChatArgument(req, id),
                                              !.header = XChatID(TRUE, id),
                                              !.pc = "load"])
                   ELSE /\ UNCHANGED chats
                        /\ Set(s, Fail(h, "error creating chat", "", 0))

\* Chat called by another caller than HandleChat, with req.ChatID as chatID
CallChat(s) ==
    LET l == sub[s] IN
    /\ s \in DOMAIN sub
    /\ UNCHANGED ops
    /\ l.pc = "idle"
    /\ Set(s, [l EXCEPT !.entry = "Chat", !.chatID = l.req.ChatID, !.pc = "load"])
    /\ UNCHANGED <<chats, messages, dblog>>

(***************************************************************************)
(* OpenRouterService.Chat.                                                 *)
(***************************************************************************)
\* Load or create chat
LoadChat(s) ==
    LET l == sub[s]
        id == Len(chats) + 1
    IN  /\ s \in DOMAIN sub
        /\ UNCHANGED ops
        /\ l.pc = "load"
        /\ UNCHANGED messages
        /\ IF l.chatID # 0
           THEN /\ UNCHANGED chats
                /\ dblog' = Append(dblog, Stmt(s, "load chat", l.chatID, FindChat(l.chatID)))
                /\ IF FindChat(l.chatID)
                   THEN Set(s, [l EXCEPT !.chat = l.chatID, !.pc = "save"])
                   ELSE Set(s, Fail(l, "error loading existing chat", "", 0))
           ELSE \E ok \in BOOLEAN :
                /\ dblog' = Append(dblog, Stmt(s, "create new chat", id, ok))
                /\ IF ok
                   THEN /\ chats' = Append(chats, ChatRow("", 0, 0))
                        /\ Set(s, [l EXCEPT !.chat = id, !.chatID = id, !.pc = "save"])
                   ELSE /\ UNCHANGED chats
                        /\ Set(s, Fail(l, "error creating new chat", "", 0))

\* the skip left out
NeverSaved(msg) == FALSE

\* if msg.ID != 0 { continue }
AlreadySaved(msg) == msg.ID # 0

\* every insert of the loop stores the first input turn
NewMessageFirst(l, msg) ==
    MessageRow(l.chatID, l.req.Messages[1].Role, l.req.Messages[1].Content, l.req.Model)

\* a Turn bound to the conversation id of the request, not to the resolved one
NewMessageOfRequest(l, msg) == MessageRow(l.req.ChatID, msg.Role, msg.Content, l.req.Model)

\* models.Message{ChatID: chatID, Role: msg.Role, Content: msg.Content, ModelName: req.Model}
NewMessage(l, msg) == MessageRow(l.chatID, msg.Role, msg.Content, l.req.Model)

\* the error is kept and the loop goes on with the next message
SaveFailedContinue(l) ==
    [Fail(l, "error saving message", "", 0) EXCEPT !.pc = "save", !.msgIdx = @ + 1]

\* if err := s.DB.Create(&message).Error; err != nil { return ... }
SaveFailed(l) == Fail(l, "error saving message", "", 0)

\* one iteration of "for _, msg := range req.Messages"
SaveMessage(s) ==
    LET l == sub[s]
        id == Len(messages) + 1
    IN  /\ s \in DOMAIN sub
        /\ UNCHANGED ops
        /\ l.pc = "save"
        /\ l.msgIdx <= Len(l.req.Messages)
        /\ UNCHANGED chats
        /\ LET msg == l.req.Messages[l.msgIdx] IN
           IF AlreadySaved(msg)
           THEN /\ Set(s, [l EXCEPT !.msgIdx = @ + 1])
                /\ UNCHANGED <<messages, dblog>>
           ELSE \E ok \in BOOLEAN :
                /\ dblog' = Append(dblog, Stmt(s, "save message", id, ok))
                /\ IF ok
                   THEN /\ messages' = Append(messages, NewMessage(l, msg))
                        /\ Set(s, [l EXCEPT !.msgIdx = @ + 1])
                   ELSE /\ UNCHANGED messages
                        /\ Set(s, SaveFailed(l))

\* apiReq.Messages[i] = ChatMessage{Role: msg.Role, Content: msg.Content}
ChatMessage(msg) == [Role |-> msg.Role, Content |-> msg.Content]

\* the request body sent upstream
ApiReq(req) ==
    [Model |-> req.Model,
     Messages |-> [i \in 1..Len(req.Messages) |-> ChatMessage(req.Messages[i])],
     Stream |-> req.Stream]

\* the error is built and the return is missing
StatusErrorNoReturn(l, r) ==
    [Fail(l, "error response with status", "", r.status) EXCEPT !.pc = "accepted"]

\* a failure status answered by issuing the request again
StatusErrorRetry(l, r) == [l EXCEPT !.pc = "save"]

\* an error that reports the HTTP status whatever the body holds
StatusErrorStatusOnly(l, r) == Fail(l, "error response with status", "", r.status)

\* if resp.StatusCode != http.StatusOK { ... return error }
StatusError(l, r) ==
    IF r.errBody = <<>>
    THEN Fail(l, "error response with status", "", r.status)
    ELSE Fail(l, "API error", FieldString(r.errBody[1], "message"), Field(r.errBody[1], "code"))

\* a test that lets every status of the 2xx class through
AcceptedAnySuccess(r) == r.status \in 200..299

\* resp.StatusCode == http.StatusOK
Accepted(r) == r.status = 200

\* the relay loop entered without the insert of the placeholder
StatusOKToLoop(l) == [l EXCEPT !.pc = "read"]

\* past the status check: the SSE headers, the reader, then the placeholder
StatusOK(l) == [l EXCEPT !.pc = "accepted"]

\* client.Do(httpReq) and the check of the status
DoRequest(s) ==
    LET l == sub[s]
        c == [l EXCEPT !.apiReq = <<ApiReq(l.req)>>, !.calls = @ + 1]
    IN  /\ s \in DOMAIN sub
        /\ UNCHANGED ops
        /\ l.pc = "save"
        /\ l.msgIdx > Len(l.req.Messages)
        /\ UNCHANGED <<chats, messages, dblog>>
        /\ \E r \in UpstreamResponses :
             IF ~r.connected
             THEN Set(s, Fail(c, "error making request", "", 0))
             ELSE IF ~Accepted(r)
             THEN Set(s, StatusError([c EXCEPT !.status = r.status, !.errBody = r.errBody], r))
             ELSE Set(s, StatusOK([c EXCEPT !.status = r.status]))

\* models.Message{ChatID: chat.ID, Role: "assistant", Content: ""}
AssistantMessage(l) == MessageRow(l.chat, "assistant", "", "")

\* the SSE headers and the insert of the placeholder
CreateAssistantMessage(s) ==
    LET l == sub[s]
        id == Len(messages) + 1
        h == [l EXCEPT !.sse = TRUE]
    IN  /\ s \in DOMAIN sub
        /\ UNCHANGED ops
        /\ l.pc = "accepted"
        /\ UNCHANGED chats
        /\ \E ok \in BOOLEAN :
             /\ dblog' = Append(dblog, Stmt(s, "save assistant message", id, ok))
             /\ IF ok
                THEN /\ messages' = Append(messages, AssistantMessage(l))
                     /\ Set(s, [h EXCEPT !.assistantMessage = id, !.pc = "read"])
                ELSE /\ UNCHANGED messages
                     /\ Set(s, Fail(h, "error saving assistant message", "", 0))

\* a loop that leaves on every read error and lets the parse store what was
\* accumulated before the error is returned
AfterReadKeepPartial(l, r) ==
    IF r.err # "nil"
    THEN IF r.err = "EOF"
         THEN [l EXCEPT !.pc = "parse"]
         ELSE [l EXCEPT !.pc = "parse", !.err = Error("error reading stream", "", 0)]
    ELSE [l EXCEPT !.line = r.line, !.responseBuffer = @ \o r.line, !.pc = "write"]

\* a loop that relays the line without accumulating it
AfterReadUnbuffered(l, r) ==
    IF r.err # "nil"
    THEN IF r.err = "EOF"
         THEN [l EXCEPT !.pc = "parse"]
         ELSE Fail(l, "error reading stream", "", 0)
    ELSE [l EXCEPT !.line = r.line, !.pc = "write"]

\* line, err := reader.ReadBytes('\n') and what the loop does with it up to
\* responseBuffer.Write(line)
AfterRead(l, r) ==
    IF r.err # "nil"
    THEN IF r.err = "EOF"
         THEN [l EXCEPT !.pc = "parse"]
         ELSE Fail(l, "error reading stream", "", 0)
    ELSE [l EXCEPT !.line = r.line, !.responseBuffer = @ \o r.line, !.pc = "write"]

ReadLine(s) ==
    LET l == sub[s] IN
    /\ s \in DOMAIN sub
    /\ UNCHANGED ops
    /\ l.pc = "read"
    /\ UNCHANGED <<chats, messages, dblog>>
    /\ \E r \in ReadOutcomes(l) :
         Set(s, AfterRead([l EXCEPT !.upstream = @ \o r.line], r))

\* w.Write(line) and the flush
WriteLine(s) ==
    LET l == sub[s] IN
    /\ s \in DOMAIN sub
    /\ UNCHANGED ops
    /\ l.pc = "write"
    /\ UNCHANGED <<chats, messages, dblog>>
    /\ \E ok \in BOOLEAN :
         IF ok
         THEN Set(s, [l EXCEPT !.written = @ \o l.line, !.pc = "read"])
         ELSE Set(s, Fail(l, "error writing to response", "", 0))

\* the parse of the buffer and DB.Model(&assistantMessage).Update("content", fullResponse)
\* an update that names the assistant Turns of the conversation
WhereAssistantOfChat(l) ==
    {i \in 1..Len(messages) :
        messages[i].ChatID = l.chat /\ messages[i].Role = "assistant"}

\* DB.Model(&assistantMessage): the rows an update names are those with the
\* primary key of the placeholder
Model(l) == {l.assistantMessage}

\* one statement that writes the content and the three counts together
ContentWithUsage(row, p) ==
    [row EXCEPT !.Content = p.fullResponse,
                !.PromptTokens = p.promptTokens,
                !.CompletionTokens = p.completionTokens,
                !.TotalTokens = p.totalTokens]

\* a content update that is skipped for a request without stream
ContentUpdatedIfStream(row, p) ==
    IF p.req.Stream THEN [row EXCEPT !.Content = p.fullResponse] ELSE row

\* DB.Model(&assistantMessage).Update("content", fullResponse.String()): the
\* row after the update
ContentUpdated(row, p) == [row EXCEPT !.Content = p.fullResponse]

UpdateContent(s) ==
    LET l == sub[s]
        a == ParseResponse(l.responseBuffer)
        p == [l EXCEPT !.fullResponse = a.fullResponse,
                       !.promptTokens = a.promptTokens,
                       !.completionTokens = a.completionTokens,
                       !.totalTokens = a.totalTokens]
    IN  /\ s \in DOMAIN sub
        /\ UNCHANGED ops
        /\ l.pc = "parse"
        /\ UNCHANGED chats
        /\ \E ok \in BOOLEAN :
             /\ dblog' = Append(dblog, Stmt(s, "update content", l.assistantMessage, ok))
             /\ IF ok
                THEN /\ messages' = [i \in 1..Len(messages) |->
                                        IF i \in Model(l)
                                        THEN ContentUpdated(messages[i], p)
                                        ELSE messages[i]]
                     /\ Set(s, [p EXCEPT !.pc = IF UsageExtracted(p) THEN "usage" ELSE "returned"])
                ELSE /\ UNCHANGED messages
                     /\ Set(s, Fail(p, "error updating assistant message", "", 0))

\* DB.Model(&assistantMessage).Updates(updates)
UpdateUsage(s) ==
    LET l == sub[s] IN
    /\ s \in DOMAIN sub
    /\ UNCHANGED ops
    /\ l.pc = "usage"
    /\ UNCHANGED chats
    /\ \E ok \in BOOLEAN :
         /\ dblog' = Append(dblog, Stmt(s, "update usage", l.assistantMessage, ok))
         /\ IF ok
            THEN /\ messages' = [i \in 1..Len(messages) |->
                                    IF i \in Model(l)
                                    THEN [messages[i] EXCEPT
                                            !.PromptTokens = l.promptTokens,
                                            !.CompletionTokens = l.completionTokens,
                                            !.TotalTokens = l.totalTokens]
                                    ELSE messages[i]]
                 /\ Set(s, [l EXCEPT !.pc = "returned"])
            ELSE /\ UNCHANGED messages
                 /\ Set(s, Fail(l, "error updating assistant message with usage", "", 0))

\* the body of c.JSON(500, gin.H{"error": err.Error()})
ErrorJSON == [t |-> "{error: ...}"]

\* what the handler and Chat have written to c.Writer: the relayed lines,
\* then the JSON error object when Chat returned an error to HandleChat
ResponseBody(l) == l.written \o (IF l.errorJSON THEN <<ErrorJSON>> ELSE <<>>)

(***************************************************************************)
(* The other handlers of the controller that write to the store.  Every    *)
(* database statement is one step.                                         *)
(***************************************************************************)
\* the ids requests to these handlers may have; those of a run are DOMAIN ops
Handlers == {1, 2}

SetOp(h, o) == ops' = [ops EXCEPT ![h] = o]

\* DB.First(&message, id): the row with this primary key that is not soft-deleted
FindMessage(id) == id \in 1..Len(messages) /\ ~messages[id].Deleted

\* a request to HandleToggleMessageStar
StarRequest(id) == [kind |-> "star", pc |-> "idle", id |-> id, message |-> <<>>]

\* DB.First(&message, messageID), 404 when it finds nothing
ToggleRead(h) ==
    LET o == ops[h] IN
    /\ h \in DOMAIN ops
    /\ o.kind = "star"
    /\ o.pc = "idle"
    /\ UNCHANGED <<chats, messages, dblog, sub>>
    /\ IF FindMessage(o.id)
       THEN SetOp(h, [o EXCEPT !.message = <<messages[o.id]>>, !.pc = "loaded"])
       ELSE SetOp(h, [o EXCEPT !.pc = "not found"])

\* DB.Save(&message): every column of the row is written from the struct
Save(rows, id, row) == [rows EXCEPT ![id] = row]

\* message.Starred = !message.Starred; DB.Save(&message)
ToggleSave(h) ==
    LET o == ops[h]
        message == [o.message[1] EXCEPT !.Starred = ~@]
    IN  /\ h \in DOMAIN ops
        /\ o.kind = "star"
        /\ o.pc = "loaded"
        /\ UNCHANGED <<chats, dblog, sub>>
        /\ \E ok \in BOOLEAN :
             IF ok
             THEN /\ messages' = Save(messages, o.id, message)
                  /\ SetOp(h, [o EXCEPT !.message = <<message>>, !.pc = "done"])
             ELSE /\ UNCHANGED messages
                  /\ SetOp(h, [o EXCEPT !.pc = "failed"])

\* a request to HandleDeleteChat
DeleteRequest(id) == [kind |-> "delete", pc |-> "idle", id |-> id]

\* DB.Delete(&models.Chat{}, chatID): the deletion marker is set on the
\* conversation row; no statement touches the messages table
SoftDelete(rows, id) ==
    IF id \in 1..Len(rows) THEN [rows EXCEPT ![id].Deleted = TRUE] ELSE rows

HandleDeleteChat(h) ==
    LET o == ops[h] IN
    /\ h \in DOMAIN ops
    /\ o.kind = "delete"
    /\ o.pc = "idle"
    /\ UNCHANGED <<messages, dblog, sub>>
    /\ \E ok \in BOOLEAN :
         IF ok
         THEN /\ chats' = SoftDelete(chats, o.id)
              /\ SetOp(h, [o EXCEPT !.pc = "done"])
         ELSE /\ UNCHANGED chats
              /\ SetOp(h, [o EXCEPT !.pc = "failed"])

\* a request to HandleForkChat: {chatId, messageId}
ForkRequest(chatId, messageId) ==
    [kind |-> "fork", pc |-> "idle", ChatID |-> chatId, MessageID |-> messageId,
     originalChat |-> <<>>, Messages |-> <<>>, idx |-> 1, newChat |-> 0,
     header |-> 0]

\* Preload("Messages", Order("created_at ASC")): the live Turns of the
\* conversation with their ids, in creation order (the order of the ids)
RECURSIVE PreloadFrom(_, _)
PreloadFrom(chatId, i) ==
    IF i > Len(messages) THEN <<>>
    ELSE (IF messages[i].ChatID = chatId /\ ~messages[i].Deleted
          THEN <<[ID |-> i, row |-> messages[i]]>> ELSE <<>>)
         \o PreloadFrom(chatId, i + 1)

Preload(chatId) == PreloadFrom(chatId, 1)

\* DB.Preload("Messages", ...).First(&originalChat, req.ChatID), 404 on error
ForkLoad(h) ==
    LET o == ops[h] IN
    /\ h \in DOMAIN ops
    /\ o.kind = "fork"
    /\ o.pc = "idle"
    /\ UNCHANGED <<chats, messages, dblog, sub>>
    /\ IF FindChat(o.ChatID)
       THEN SetOp(h, [o EXCEPT !.originalChat = <<chats[o.ChatID]>>,
                               !.Messages = Preload(o.ChatID),
                               !.pc = "create"])
       ELSE SetOp(h, [o EXCEPT !.pc = "not found"])

\* models.Chat{ModelName: originalChat.ModelName, ParentID: &originalChat.ID,
\*             ForkMessageID: &req.MessageID}
NewChat(o) == ChatRow(o.originalChat[1].ModelName, o.ChatID, o.MessageID)

\* DB.Create(&newChat)
ForkCreate(h) ==
    LET o == ops[h] IN
    /\ h \in DOMAIN ops
    /\ o.kind = "fork"
    /\ o.pc = "create"
    /\ UNCHANGED <<messages, dblog, sub>>
    /\ \E ok \in BOOLEAN :
         IF ok
         THEN /\ chats' = Append(chats, NewChat(o))
              /\ SetOp(h, [o EXCEPT !.newChat = Len(chats) + 1, !.pc = "copy"])
         ELSE /\ UNCHANGED chats
              /\ SetOp(h, [o EXCEPT !.pc = "failed to create forked chat"])

\* a copy bound to the original conversation
NewMsgOfOriginal(o, msg) ==
    [MessageRow(o.ChatID, msg.Role, msg.Content, msg.ModelName) EXCEPT
        !.PromptTokens = msg.PromptTokens,
        !.CompletionTokens = msg.CompletionTokens,
        !.TotalTokens = msg.TotalTokens]

\* models.Message{ChatID: newChat.ID, Role, Content, ModelName, the counts}
NewMsg(o, msg) ==
    [MessageRow(o.newChat, msg.Role, msg.Content, msg.ModelName) EXCEPT
        !.PromptTokens = msg.PromptTokens,
        !.CompletionTokens = msg.CompletionTokens,
        !.TotalTokens = msg.TotalTokens]

\* if msg.ID == req.MessageID { break }
ForkPoint(o, msg) == msg.ID = o.MessageID

\* if err := DB.Create(&newMsg).Error; err != nil { c.JSON(500, ...); return }
CopyFailed(o) == [o EXCEPT !.pc = "failed to copy message"]

\* one iteration of "for _, msg := range originalChat.Messages", and what
\* follows the loop: c.Header("X-Fork-Chat-ID", newChat.ID); c.JSON(200, ...)
ForkCopy(h) ==
    LET o == ops[h] IN
    /\ h \in DOMAIN ops
    /\ o.kind = "fork"
    /\ o.pc = "copy"
    /\ UNCHANGED <<chats, dblog, sub>>
    /\ IF o.idx > Len(o.Messages) \/ ForkPoint(o, o.Messages[o.idx])
       THEN /\ UNCHANGED messages
            /\ SetOp(h, [o EXCEPT !.header = o.newChat, !.pc = "done"])
       ELSE \E ok \in BOOLEAN :
            IF ok
            THEN /\ messages' = Append(messages, NewMsg(o, o.Messages[o.idx].row))
                 /\ SetOp(h, [o EXCEPT !.idx = @ + 1])
            ELSE /\ UNCHANGED messages
                 /\ SetOp(h, CopyFailed(o))

Next ==
    \/ \E s \in Subs : HandleChat(s)
    \/ \E s \in Subs : CallChat(s)
    \/ \E s \in Subs : LoadChat(s)
    \/ \E s \in Subs : SaveMessage(s)
    \/ \E s \in Subs : DoRequest(s)
    \/ \E s \in Subs : CreateAssistantMessage(s)
    \/ \E s \in Subs : ReadLine(s)
    \/ \E s \in Subs : WriteLine(s)
    \/ \E s \in Subs : UpdateContent(s)
    \/ \E s \in Subs : UpdateUsage(s)

Spec == Init /\ [][Next]_vars

SpecRelay == InitRelay /\ [][Next]_vars

SpecPair == InitPair /\ [][Next]_vars

SpecFlag == InitFlag /\ [][Next]_vars

\* the Turn a star request names: a stored one, or the one that will be the
\* placeholder of the submission
StarIds == {1, Len(StoreMessages) + 2}

\* the conversation and the Turn a fork request names
ForkChatIds == {1, 2, 3}
ForkMessageIds == 0..(Len(StoreMessages) + 1)

\* either a submission on conversation 1 with a star request and the delete
\* of conversation 1 in flight, or a fork request alone
InitStore ==
    /\ chats = InitChats
    /\ messages = StoreMessages
    /\ dblog = <<>>
    /\ \/ /\ sub = [s \in {1} |->
                    [Locals(StoreRequest, PairLines) EXCEPT !.maxLines = MaxPairLines]]
          /\ \E id \in StarIds : ops = <<StarRequest(id), DeleteRequest(1)>>
       \/ /\ sub = <<>>
          /\ \E c \in ForkChatIds, id \in ForkMessageIds : ops = <<ForkRequest(c, id)>>

NextStore ==
    \/ Next
    \/ \E h \in Handlers : ToggleRead(h)
    \/ \E h \in Handlers : ToggleSave(h)
    \/ \E h \in Handlers : HandleDeleteChat(h)
    \/ \E h \in Handlers : ForkLoad(h)
    \/ \E h \in Handlers : ForkCreate(h)
    \/ \E h \in Handlers : ForkCopy(h)

SpecStore == InitStore /\ [][NextStore]_vars

(***************************************************************************)
(* What the claims speak of, stated from the byte sequences alone.         *)
(***************************************************************************)
HasNL(b) == \E i \in 1..Len(b) : b[i] = NL

FirstNL(b) == CHOOSE i \in 1..Len(b) : b[i] = NL /\ \A j \in 1..(i - 1) : b[j] # NL

\* the lines of b that end with a newline, without it
RECURSIVE TerminatedLines(_)
TerminatedLines(b) ==
    IF ~HasNL(b) THEN <<>>
    ELSE <<SubSeq(b, 1, FirstNL(b) - 1)>> \o TerminatedLines(SubSeq(b, FirstNL(b) + 1, Len(b)))

\* what follows the last newline of b
RECURSIVE Unterminated(_)
Unterminated(b) ==
    IF ~HasNL(b) THEN b ELSE Unterminated(SubSeq(b, FirstNL(b) + 1, Len(b)))

\* the records of a body: its lines, the unterminated last one included
Records(b) ==
    TerminatedLines(b) \o (IF Unterminated(b) = <<>> THEN <<>> ELSE <<Unterminated(b)>>)

\* the JSON object of a decodable "data: " record (<<>> for any other line)
RecordObject(line) ==
    IF Len(line) = 2 /\ line[1] = PFX /\ line[2].t = "json" THEN <<line[2]>> ELSE <<>>

RECURSIVE Join(_)
Join(strs) == IF strs = <<>> THEN "" ELSE Head(strs) \o Join(Tail(strs))

RECURSIVE Flatten(_)
Flatten(seqs) == IF seqs = <<>> THEN <<>> ELSE Head(seqs) \o Flatten(Tail(seqs))

\* every delta.content of a record, in order
EveryFragment(line) ==
    IF RecordObject(line) = <<>> THEN "" ELSE Join(RecordObject(line)[1].choices)

\* the delta.content of the first choice of a record
FirstFragment(line) ==
    IF RecordObject(line) = <<>> \/ RecordObject(line)[1].choices = <<>> THEN ""
    ELSE RecordObject(line)[1].choices[1]

\* the usage objects of the records, in arrival order
UsageObjects(recs) ==
    Flatten([i \in 1..Len(recs) |->
        IF RecordObject(recs[i]) = <<>> THEN <<>> ELSE RecordObject(recs[i])[1].usage])

Last(seq) == seq[Len(seq)]

\* the three counts of a usage object, a missing key counting zero
Counts(u) ==
    <<Field(u, "prompt_tokens"), Field(u, "completion_tokens"), Field(u, "total_tokens")>>

\* the three counts stored on a Turn
StoredCounts(id) ==
    <<messages[id].PromptTokens, messages[id].CompletionTokens, messages[id].TotalTokens>>

\* the statements of submission s the store has executed, and their names
Executed(s) == SelectSeq(dblog, LAMBDA e : e.sub = s /\ e.ok)
Ops(s) == [i \in 1..Len(Executed(s)) |-> Executed(s)[i].op]
Count(s, op) == Cardinality({i \in 1..Len(Ops(s)) : Ops(s)[i] = op})

\* a conversation id that names no live row of the store
Unknown(id) == id # 0 /\ (id \notin 1..Len(chats) \/ chats[id].Deleted)

\* the errors of the two lookups, and those of the upstream call
LookupErrors == {"error finding chat", "error loading existing chat"}
UpstreamErrors == {"error making request", "error response with status", "API error"}

\* the input turns that carry no id
NewTurns(turns) == SelectSeq(turns, LAMBDA m : m.ID = 0)

\* the updates of submission s the store has executed, in order
Updates(s) == SelectSeq(Ops(s), LAMBDA o : o \in {"update content", "update usage"})

\* the statements of submission s in a log, failed ones included
StatementsOf(log, s) == SelectSeq(log, LAMBDA e : e.sub = s)

Succeeded(s) == sub[s].pc = "returned"

(***************************************************************************)
(* C1.  stream=true and success: the bytes written to the caller are the   *)
(* bytes read from upstream, whether or not the last line ends with a      *)
(* newline.  The code drops what ReadBytes returns together with io.EOF.   *)
(***************************************************************************)
C1_RelayedVerbatim ==
    \A s \in DOMAIN sub :
        (Succeeded(s) /\ sub[s].req.Stream) => sub[s].written = sub[s].upstream

(***************************************************************************)
(* C2.  As claimed: on success the stored content of the assistant Turn is *)
(* the concatenation of every delta.content (all choices) of the decodable *)
(* data records of the upstream body.  Stated here for the bodies that end *)
(* with a newline, which the relay reads to their end (see C1).            *)
(***************************************************************************)
C2_EveryFragmentStored ==
    \A s \in DOMAIN sub :
        (Succeeded(s) /\ Unterminated(sub[s].upstream) = <<>>) =>
            messages[sub[s].assistantMessage].Content =
                Join([i \in 1..Len(Records(sub[s].upstream)) |->
                        EveryFragment(Records(sub[s].upstream)[i])])

(***************************************************************************)
(* C2, amended.  On success the stored content is the concatenation, in    *)
(* arrival order, of the delta.content of the first choice of every        *)
(* decodable data record relayed to the caller; [DONE] contributes nothing *)
(* and records after it still contribute.                                  *)
(***************************************************************************)
C2_FirstFragmentsStored ==
    \A s \in DOMAIN sub :
        Succeeded(s) =>
            messages[sub[s].assistantMessage].Content =
                Join([i \in 1..Len(Records(sub[s].written)) |->
                        FirstFragment(Records(sub[s].written)[i])])

\* a success whose body has a record after [DONE] with two choices
C2_Witness ==
    \E s \in DOMAIN sub :
        /\ Succeeded(s)
        /\ sub[s].upstream = LHel \o <<NL>> \o LDone \o <<NL>> \o LMulti \o <<NL>>
        /\ messages[sub[s].assistantMessage].Content = "Hello"

(***************************************************************************)
(* C3.  On success, if a record the parse decoded (a record of the         *)
(* accumulation buffer) carried a usage object, the three stored token     *)
(* counts are those of the last usage object in arrival order, a missing   *)
(* or zero field of it included.                                           *)
(***************************************************************************)
C3_LastUsageStored ==
    \A s \in DOMAIN sub :
        LET us == UsageObjects(Records(sub[s].responseBuffer)) IN
        (Succeeded(s) /\ us # <<>>) =>
            StoredCounts(sub[s].assistantMessage) = Counts(Last(us))

\* a success with two usage objects, the last one lacking two keys
C3_Witness ==
    \E s \in DOMAIN sub :
        /\ Succeeded(s)
        /\ sub[s].upstream = LUsage \o <<NL>> \o LUsagePart \o <<NL>>
        /\ StoredCounts(sub[s].assistantMessage) = <<0, 5, 0>>

(***************************************************************************)
(* C4.  A submission inserts at most one placeholder, an assistant Turn of *)
(* its conversation with empty content, and has inserted it before it      *)
(* reads or relays anything: whenever the caller holds a relayed byte the  *)
(* placeholder is in the store, and it stays empty while the relay runs.   *)
(***************************************************************************)
C4_PlaceholderBeforeRelay ==
    \A s \in DOMAIN sub :
        LET l == sub[s] IN
        /\ Count(s, "save assistant message") = (IF l.assistantMessage # 0 THEN 1 ELSE 0)
        /\ (l.pc \in {"read", "write", "parse", "usage", "returned"}
                \/ l.written # <<>> \/ l.upstream # <<>>)
            => /\ l.assistantMessage \in 1..Len(messages)
               /\ messages[l.assistantMessage].Role = "assistant"
               /\ messages[l.assistantMessage].ChatID = l.chatID
               /\ ~chats[l.chatID].Deleted
        /\ (l.assistantMessage # 0 /\ l.pc \in {"read", "write", "parse"})
            => messages[l.assistantMessage].Content = ""

\* the relay is between two lines, the caller holds bytes, the placeholder is empty
C4_Witness ==
    \E s \in DOMAIN sub :
        /\ sub[s].pc = "read"
        /\ sub[s].written # <<>>
        /\ messages[sub[s].assistantMessage].Role = "assistant"
        /\ messages[sub[s].assistantMessage].Content = ""

(***************************************************************************)
(* C5.  A request with a non-zero conversation id that is not in the store *)
(* (never created, or soft-deleted) ends in a lookup error; no row of      *)
(* either table is created and no upstream request is issued.              *)
(***************************************************************************)
C5_UnknownChatRejected ==
    \A s \in DOMAIN sub :
        LET l == sub[s] IN
        Unknown(l.req.ChatID) =>
            /\ chats = InitChats
            /\ messages = InitMessages
            /\ l.calls = 0
            /\ l.apiReq = <<>>
            /\ l.pc \in {"idle", "load", "failed"}
            /\ l.pc = "failed" => (l.err # NoError /\ l.err[1].kind \in LookupErrors)

\* Chat itself refuses the soft-deleted conversation 2
C5_Witness ==
    \E s \in DOMAIN sub :
        /\ sub[s].req.ChatID = 2
        /\ sub[s].entry = "Chat"
        /\ sub[s].pc = "failed"
        /\ sub[s].err[1].kind = "error loading existing chat"

(***************************************************************************)
(* C6.  A submission through HandleChat without a conversation id creates  *)
(* exactly one Conversation (none only when that insert itself fails);     *)
(* every Turn of the submission is bound to it and X-Chat-ID carries it.   *)
(***************************************************************************)
C6_OneConversation ==
    \A s \in DOMAIN sub :
        LET l == sub[s] IN
        (l.entry = "HandleChat" /\ l.req.ChatID = 0) =>
            /\ Count(s, "create chat") + Count(s, "create new chat")
                    = Len(chats) - Len(InitChats)
            /\ Len(chats) - Len(InitChats) = (IF l.header # 0 THEN 1 ELSE 0)
            /\ l.header = 0 => (l.pc = "failed" /\ messages = InitMessages)
            /\ l.header # 0 =>
                /\ l.header = Len(chats)
                /\ ~chats[l.header].Deleted
                /\ l.chatID = l.header
                /\ l.chat \in {0, l.header}
                /\ \A i \in (Len(InitMessages) + 1)..Len(messages) :
                        messages[i].ChatID = l.header

\* a successful first submission: conversation 3, a user Turn and the reply
C6_Witness ==
    \E s \in DOMAIN sub :
        /\ sub[s].entry = "HandleChat"
        /\ sub[s].req.ChatID = 0
        /\ Succeeded(s)
        /\ sub[s].header = 3
        /\ Len(chats) = 3
        /\ Len(messages) >= Len(InitMessages) + 2

(***************************************************************************)
(* C7.  The Turns a submission inserts in step 2 are, in order, the input  *)
(* turns without id it has gone through (a turn with an id is never        *)
(* inserted), and the upstream request holds the model, the stream flag    *)
(* and one {role, content} pair per input turn, in the input's order.      *)
(***************************************************************************)
C7_InsertsAndPayload ==
    \A s \in DOMAIN sub :
        LET l == sub[s]
            done == NewTurns(SubSeq(l.req.Messages, 1, l.msgIdx - 1))
            n == Count(s, "save message")
        IN
        /\ n = Len(done)
        /\ Len(messages) = Len(InitMessages) + n + Count(s, "save assistant message")
        /\ \A i \in 1..n :
              /\ messages[Len(InitMessages) + i].Role = done[i].Role
              /\ messages[Len(InitMessages) + i].Content = done[i].Content
        /\ l.calls > 0 => l.apiReq # <<>>
        /\ l.apiReq # <<>> =>
              /\ DOMAIN l.apiReq[1] = {"Model", "Messages", "Stream"}
              /\ l.apiReq[1].Model = l.req.Model
              /\ l.apiReq[1].Stream = l.req.Stream
              /\ Len(l.apiReq[1].Messages) = Len(l.req.Messages)
              /\ \A i \in 1..Len(l.req.Messages) :
                    l.apiReq[1].Messages[i] =
                        [Role |-> l.req.Messages[i].Role, Content |-> l.req.Messages[i].Content]

\* two stored turns and a new one went upstream; only the new one was inserted
C7_Witness ==
    \E s \in DOMAIN sub :
        /\ sub[s].calls = 1
        /\ Len(sub[s].req.Messages) = 3
        /\ sub[s].req.Messages[1].ID # 0
        /\ Len(sub[s].apiReq[1].Messages) = 3
        /\ Count(s, "save message") = 1

(***************************************************************************)
(* C8.  When the upstream call cannot connect or answers with a failure    *)
(* status, Chat returns an error, no placeholder is inserted, the relay    *)
(* writes nothing to the caller and every Turn of step 2 is in the store.  *)
(***************************************************************************)
C8_UpstreamFailure ==
    \A s \in DOMAIN sub :
        LET l == sub[s] IN
        (l.err # NoError /\ l.err[1].kind \in UpstreamErrors) =>
            /\ l.pc = "failed"
            /\ l.calls = 1
            /\ l.assistantMessage = 0
            /\ Count(s, "save assistant message") = 0
            /\ l.written = <<>>
            /\ Len(messages) = Len(InitMessages) + Len(NewTurns(l.req.Messages))
            /\ \A i \in 1..Len(NewTurns(l.req.Messages)) :
                  messages[Len(InitMessages) + i] =
                      MessageRow(l.chatID, NewTurns(l.req.Messages)[i].Role,
                                 NewTurns(l.req.Messages)[i].Content, l.req.Model)

\* 429 {"error":{"message":"rate limited","code":429}} after three Turns were saved
C8_Witness ==
    \E s \in DOMAIN sub :
        /\ sub[s].pc = "failed"
        /\ sub[s].status = 429
        /\ sub[s].err = Error("API error", "rate limited", 429)
        /\ Len(messages) = Len(InitMessages) + 3

(***************************************************************************)
(* C9.  As claimed: on success the content update has been executed, and   *)
(* if a decoded record carried a usage object the usage update has been    *)
(* executed after it.                                                      *)
(***************************************************************************)
C9_UsageUpdateWhenObserved ==
    \A s \in DOMAIN sub :
        Succeeded(s) =>
            Updates(s) =
                IF UsageObjects(Records(sub[s].responseBuffer)) # <<>>
                THEN <<"update content", "update usage">>
                ELSE <<"update content">>

(***************************************************************************)
(* C9, amended.  On success the content update has been executed, and if   *)
(* the last usage object of the decoded records has a count that is not    *)
(* zero the usage update has been executed after it; when no usage object  *)
(* was decoded or the last one counts zero three times, the content update *)
(* is the only update.                                                     *)
(***************************************************************************)
C9_UsageUpdateWhenNonZero ==
    \A s \in DOMAIN sub :
        LET us == UsageObjects(Records(sub[s].responseBuffer)) IN
        Succeeded(s) =>
            Updates(s) =
                IF us # <<>> /\ Counts(Last(us)) # <<0, 0, 0>>
                THEN <<"update content", "update usage">>
                ELSE <<"update content">>

\* a success with both updates, the last usage object holding one key only
C9_Witness ==
    \E s \in DOMAIN sub :
        /\ Succeeded(s)
        /\ Updates(s) = <<"update content", "update usage">>
        /\ sub[s].upstream = LUsageZero \o <<NL>> \o LUsagePart \o <<NL>>

(***************************************************************************)
(* C10.  Once a submission holds an error it does nothing more: no         *)
(* statement, no upstream request, no write to the caller.  The step that  *)
(* fails changes no row and ends the submission, and a row a submission    *)
(* has inserted is never removed afterwards.                               *)
(***************************************************************************)
C10_ErrorsAbort ==
    [][\A s \in DOMAIN sub :
        /\ sub[s].err # NoError =>
              /\ sub'[s] = sub[s]
              /\ StatementsOf(dblog', s) = StatementsOf(dblog, s)
              /\ chats' = chats /\ messages' = messages
        /\ (sub[s].err = NoError /\ sub'[s].err # NoError) =>
              /\ sub'[s].pc = "failed"
              /\ sub'[s].written = sub[s].written
              /\ sub'[s].calls \in {sub[s].calls, 1}
              /\ chats' = chats /\ messages' = messages
        /\ Len(chats') >= Len(chats) /\ Len(messages') >= Len(messages)
        /\ \A i \in 1..Len(chats) : chats'[i] = chats[i]
        /\ \A i \in 1..Len(messages) :
              i # sub[s].assistantMessage => messages'[i] = messages[i]
      ]_vars

\* the stream broke after a line was relayed: Conversation, Turn and placeholder stay
C10_Witness ==
    \E s \in DOMAIN sub :
        /\ sub[s].pc = "failed"
        /\ sub[s].err[1].kind = "error reading stream"
        /\ sub[s].written # <<>>
        /\ Len(chats) = Len(InitChats) + 1
        /\ Len(messages) = Len(InitMessages) + 2
        /\ messages[sub[s].assistantMessage].Content = ""

\* the errors that abort the relay loop
RelayErrors == {"error reading stream", "error writing to response"}

(***************************************************************************)
(* C11.  When the relay loop is aborted after the placeholder was inserted *)
(* (a read error other than end of stream, or a write error to the         *)
(* caller), the submission has returned that error and stays there, no     *)
(* update of the placeholder was attempted, and the placeholder holds the  *)
(* empty content and zero token counts, whatever was relayed before.       *)
(***************************************************************************)
C11_AbortedRelayKeepsPlaceholder ==
    \A s \in DOMAIN sub :
        LET l == sub[s] IN
        (l.err # NoError /\ l.err[1].kind \in RelayErrors) =>
            /\ l.pc = "failed"
            /\ l.assistantMessage \in 1..Len(messages)
            /\ messages[l.assistantMessage].Content = ""
            /\ StoredCounts(l.assistantMessage) = <<0, 0, 0>>
            /\ \A i \in 1..Len(dblog) :
                  dblog[i].sub = s => dblog[i].op \notin {"update content", "update usage"}

\* the read fails after a content line and a usage line reached the caller
C11_Witness ==
    \E s \in DOMAIN sub :
        /\ sub[s].pc = "failed"
        /\ sub[s].err[1].kind = "error reading stream"
        /\ sub[s].written = LHel \o <<NL>> \o LUsage \o <<NL>>
        /\ messages[sub[s].assistantMessage].Content = ""
        /\ StoredCounts(sub[s].assistantMessage) = <<0, 0, 0>>

\* the errors made from an upstream answer with a failure status
StatusErrors == {"error response with status", "API error"}

\* the message and the code of a decoded error body, absent keys as json
\* leaves them
BodyMessage(b) == IF "message" \in DOMAIN b THEN b.message ELSE ""
BodyCode(b) == IF "code" \in DOMAIN b THEN b.code ELSE 0

(***************************************************************************)
(* C12.  As claimed: the error returned for a failure status carries the   *)
(* upstream HTTP status code and, when the body decodes as {error:         *)
(* {message, code}}, the upstream message, for every combination of HTTP   *)
(* status, body code and body decodability.                                *)
(***************************************************************************)
C12_ErrorCarriesStatus ==
    \A s \in DOMAIN sub :
        LET l == sub[s] IN
        (l.err # NoError /\ l.err[1].kind \in StatusErrors) =>
            /\ l.err[1].code = l.status
            /\ l.errBody # <<>> => l.err[1].text = BodyMessage(l.errBody[1])

(***************************************************************************)
(* C12, amended.  When the body of a failure answer decodes, the error     *)
(* carries the message and the code field of the body (0 when the body has *)
(* none) and not the HTTP status; when it does not decode, the error       *)
(* carries the HTTP status and no message.                                 *)
(***************************************************************************)
C12_ErrorCarriesBodyOrStatus ==
    \A s \in DOMAIN sub :
        LET l == sub[s] IN
        (l.err # NoError /\ l.err[1].kind \in StatusErrors) =>
            /\ l.status # 0
            /\ IF l.errBody = <<>>
               THEN l.err[1] = [kind |-> "error response with status", text |-> "",
                                code |-> l.status]
               ELSE l.err[1] = [kind |-> "API error",
                                text |-> BodyMessage(l.errBody[1]),
                                code |-> BodyCode(l.errBody[1])]

\* status 500 with a body whose code is 529: the error carries 529
C12_Witness ==
    \E s \in DOMAIN sub :
        /\ sub[s].pc = "failed"
        /\ sub[s].status = 500
        /\ sub[s].err[1].kind = "API error"
        /\ sub[s].err[1].text = "overloaded"
        /\ sub[s].err[1].code = 529

\* the success class of HTTP
Is2xx(status) == status \in 200..299

\* the placeholder of submission s is in the store
HasPlaceholder(s) == sub[s].assistantMessage \in 1..Len(messages)

ObservedCounts(s) ==
    LET us == UsageObjects(Records(sub[s].responseBuffer)) IN
    IF us = <<>> THEN <<0, 0, 0>> ELSE Counts(Last(us))

\* the content the parse of submission s assembles
FinalContent(s) ==
    Join([i \in 1..Len(Records(sub[s].responseBuffer)) |->
            FirstFragment(Records(sub[s].responseBuffer)[i])])

(***************************************************************************)
(* C14.  As claimed: the placeholder is mutated exactly once, content and  *)
(* token counts written together: in no reachable state, the states after  *)
(* a failed store write included, has the content update been executed     *)
(* while observed non-zero usage counts are not stored.                    *)
(***************************************************************************)
C14_ContentAndUsageTogether ==
    \A s \in DOMAIN sub :
        (HasPlaceholder(s) /\ Count(s, "update content") = 1) =>
            /\ Len(Updates(s)) = 1
            /\ StoredCounts(sub[s].assistantMessage) = ObservedCounts(s)

(***************************************************************************)
(* C14, amended.  The placeholder is inserted once with empty content and  *)
(* is then mutated by at most two statements, in this order: one update of *)
(* the content alone, and, only when an observed count is non-zero, one    *)
(* later update of the three counts.  The counts are never stored before   *)
(* the content; between the two updates, and for good when the second      *)
(* fails, the Turn holds its final content with zero counts.               *)
(***************************************************************************)
C14_ContentThenUsage ==
    \A s \in DOMAIN sub :
        LET l == sub[s]
            am == l.assistantMessage
        IN  HasPlaceholder(s) =>
            /\ Count(s, "save assistant message") = 1
            /\ Updates(s) \in {<<>>, <<"update content">>,
                                <<"update content", "update usage">>}
            /\ messages[am].Content =
                  (IF Count(s, "update content") = 1 THEN FinalContent(s) ELSE "")
            /\ StoredCounts(am) =
                  (IF Count(s, "update usage") = 1 THEN ObservedCounts(s) ELSE <<0, 0, 0>>)
            /\ Count(s, "update usage") = 1 => ObservedCounts(s) # <<0, 0, 0>>

\* the usage update failed: the Turn keeps "Hel" with zero counts for good
C14_Witness ==
    \E s \in DOMAIN sub :
        /\ sub[s].pc = "failed"
        /\ sub[s].err[1].kind = "error updating assistant message with usage"
        /\ messages[sub[s].assistantMessage].Content = "Hel"
        /\ ObservedCounts(s) = <<1, 2, 3>>
        /\ StoredCounts(sub[s].assistantMessage) = <<0, 0, 0>>

\* the rows submission s inserted for its input turns, in insert order
InputRows(s) ==
    [i \in 1..Count(s, "save message") |-> messages[Len(InitMessages) + i]]

\* the inserts of input turns submission s attempted, failed ones included
SaveAttempts(s) ==
    Len(SelectSeq(dblog, LAMBDA e : e.sub = s /\ e.op = "save message"))

(***************************************************************************)
(* C15.  The input turns without id are inserted one by one in input       *)
(* order, each bound to the resolved conversation, and all of them are in  *)
(* the store before the upstream request is issued.  When one insert       *)
(* fails, the earlier ones stay, no later one is attempted and no upstream *)
(* request is issued.                                                      *)
(***************************************************************************)
C15_InsertsBeforeUpstream ==
    \A s \in DOMAIN sub :
        LET l == sub[s]
            new == NewTurns(l.req.Messages)
            rows == InputRows(s)
        IN
        /\ Len(rows) <= Len(new)
        /\ \A i \in 1..Len(rows) :
              /\ rows[i].ChatID = l.chatID
              /\ rows[i].Role = new[i].Role
              /\ rows[i].Content = new[i].Content
        /\ l.calls > 0 => (Len(rows) = Len(new) /\ SaveAttempts(s) = Len(new))
        /\ (l.err # NoError /\ l.err[1].kind = "error saving message") =>
              /\ l.pc = "failed"
              /\ l.calls = 0 /\ l.apiReq = <<>>
              /\ Len(rows) < Len(new)
              /\ SaveAttempts(s) = Len(rows) + 1
              /\ Len(messages) = Len(InitMessages) + Len(rows)
        /\ SaveAttempts(s) > Len(rows) =>
              (l.err # NoError /\ l.err[1].kind = "error saving message")

\* the second of three inserts failed: one row stays, no upstream request
C15_Witness ==
    \E s \in DOMAIN sub :
        /\ sub[s].pc = "failed"
        /\ sub[s].err[1].kind = "error saving message"
        /\ Len(NewTurns(sub[s].req.Messages)) = 3
        /\ Len(InputRows(s)) = 1
        /\ InputRows(s)[1].Content = "hi"
        /\ sub[s].calls = 0

\* the errors a submission can return once the upstream request was issued
AfterRequestErrors ==
    UpstreamErrors \cup RelayErrors \cup
        {"error saving assistant message", "error updating assistant message",
         "error updating assistant message with usage"}

(***************************************************************************)
(* C16.  A submission issues at most one upstream request: none before its *)
(* input turns are stored, exactly one from then on, and a submission that *)
(* failed at or after the request has issued it once and takes no further  *)
(* step, so the request is never issued again.                             *)
(***************************************************************************)
C16_OneUpstreamRequest ==
    \A s \in DOMAIN sub :
        LET l == sub[s] IN
        /\ l.calls \in {0, 1}
        /\ l.calls = 1 <=> l.apiReq # <<>>
        /\ l.pc \in {"idle", "load", "save"} => l.calls = 0
        /\ l.pc \in {"accepted", "read", "write", "parse", "usage", "returned"} => l.calls = 1
        /\ (l.err # NoError /\ l.err[1].kind \in AfterRequestErrors) =>
              (l.calls = 1 /\ l.pc = "failed")
        /\ (l.err # NoError /\ l.err[1].kind \notin AfterRequestErrors) => l.calls = 0

\* the stream broke after one line was relayed; the request was issued once
C16_Witness ==
    \E s \in DOMAIN sub :
        /\ sub[s].pc = "failed"
        /\ sub[s].err[1].kind = "error reading stream"
        /\ sub[s].written # <<>>
        /\ sub[s].calls = 1

\* a record the parse cannot use: empty, without the prefix, or with a
\* payload that is not JSON
Malformed(line) == line = <<>> \/ line[1] # PFX \/ line[2] = JUNK

\* the records of the buffer of submission s that are not malformed
WellFormed(s) ==
    SelectSeq(Records(sub[s].responseBuffer), LAMBDA line : ~Malformed(line))

\* some record of the buffer of submission s is malformed
SomeMalformed(s) ==
    \E i \in 1..Len(Records(sub[s].responseBuffer)) :
        Malformed(Records(sub[s].responseBuffer)[i])

(***************************************************************************)
(* C17.  Records that are empty, lack the "data: " prefix or do not decode *)
(* are skipped and never make the submission fail: once the relay has      *)
(* ended, the only errors left are those of the two store updates, and the *)
(* content stored is that of the remaining records, the fragments before   *)
(* and after a skipped record in their order.                              *)
(***************************************************************************)
C17_MalformedRecordsSkipped ==
    \A s \in DOMAIN sub :
        LET l == sub[s]
            good == WellFormed(s)
        IN
        /\ Count(s, "update content") = 1 =>
              messages[l.assistantMessage].Content =
                  Join([i \in 1..Len(good) |-> FirstFragment(good[i])])
        /\ l.pc \in {"usage", "returned"} => Count(s, "update content") = 1
        /\ (l.pc = "failed" /\ l.fullResponse # "") =>
              l.err[1].kind \in {"error updating assistant message",
                                 "error updating assistant message with usage"}
        /\ (l.pc = "failed" /\ l.err[1].kind \in RelayErrors) => l.fullResponse = ""

\* a fragment, a record without prefix, a fragment: success with "HelHel"
C17_Witness ==
    \E s \in DOMAIN sub :
        /\ Succeeded(s)
        /\ sub[s].responseBuffer = LHel \o <<NL>> \o LBare \o <<NL>> \o LHel \o <<NL>>
        /\ SomeMalformed(s)
        /\ messages[sub[s].assistantMessage].Content = "HelHel"

\* the ids of the conversations created since the start
CreatedChats == (Len(InitChats) + 1)..Len(chats)

(***************************************************************************)
(* C18.  Every Conversation a submission without conversation id creates   *)
(* carries the requested model, whether the handler created it or Chat     *)
(* itself did (called with id zero).  Chat creates it with no model.       *)
(***************************************************************************)
C18_CreatedChatTagged ==
    \A s \in DOMAIN sub :
        \A i \in 1..Len(dblog) :
            (dblog[i].sub = s /\ dblog[i].ok
                /\ dblog[i].op \in {"create chat", "create new chat"}) =>
                /\ dblog[i].id \in CreatedChats
                /\ chats[dblog[i].id].ModelName = sub[s].req.Model

(***************************************************************************)
(* C19.  Every Turn a submission creates records the requested model, the  *)
(* placeholder of the reply included, when it is inserted and after its    *)
(* updates.  The placeholder is inserted with no model and no update       *)
(* writes one.                                                             *)
(***************************************************************************)
C19_TurnsRecordModel ==
    \A s \in DOMAIN sub :
        \A i \in 1..Len(dblog) :
            (dblog[i].sub = s /\ dblog[i].ok
                /\ dblog[i].op \in {"save message", "save assistant message"}) =>
                messages[dblog[i].id].ModelName = sub[s].req.Model

\* the rows of the Turn table inserted since the start
NewRows == (Len(InitMessages) + 1)..Len(messages)

(***************************************************************************)
(* C20.  HandleChat sets X-Chat-ID only for a request without conversation *)
(* id, and for every such request whose Conversation it could create; the  *)
(* value is the id of the Conversation every Turn of the submission is     *)
(* bound to; and the header is set before the upstream request, the SSE    *)
(* headers and the first relayed byte.  A request with an id, and a call   *)
(* of Chat from elsewhere, set no header.                                  *)
(***************************************************************************)
C20_HeaderOfNewConversation ==
    \A s \in DOMAIN sub :
        LET l == sub[s] IN
        /\ l.header # 0 =>
              /\ l.entry = "HandleChat"
              /\ l.req.ChatID = 0
              /\ l.header \in CreatedChats
              /\ l.header = l.chatID
              /\ \A i \in NewRows : messages[i].ChatID = l.header
        /\ (l.entry = "HandleChat" /\ l.req.ChatID = 0 /\ l.header = 0) =>
              /\ l.pc = "failed"
              /\ l.err[1].kind = "error creating chat"
              /\ chats = InitChats
        /\ (l.entry = "HandleChat" /\ l.req.ChatID = 0
                /\ (l.calls > 0 \/ l.sse \/ l.written # <<>> \/ NewRows # {})) =>
              l.header # 0

\* a new conversation 3: the header carries 3 while the relay runs
C20_Witness ==
    \E s \in DOMAIN sub :
        /\ sub[s].entry = "HandleChat"
        /\ sub[s].req.ChatID = 0
        /\ sub[s].header = 3
        /\ sub[s].written # <<>>
        /\ messages[sub[s].assistantMessage].ChatID = 3

\* the inserts of Turns submission s has executed, in execution order
Inserts(s) ==
    SelectSeq(Executed(s),
              LAMBDA e : e.op \in {"save message", "save assistant message"})

(***************************************************************************)
(* C21.  Two submissions on the same conversation are not mutually         *)
(* excluded (the witness is an alternation of their Turns), while each     *)
(* submission keeps its program order: its rows have increasing ids, they  *)
(* are its input turns without id in the given order and then its          *)
(* placeholder, all bound to the conversation, and no row belongs to both. *)
(***************************************************************************)
C21_ProgramOrderKept ==
    \A s \in DOMAIN sub :
        LET l == sub[s]
            ins == Inserts(s)
            new == NewTurns(l.req.Messages)
        IN
        /\ Len(ins) <= Len(new) + 1
        /\ \A i, j \in 1..Len(ins) : i < j => ins[i].id < ins[j].id
        /\ \A i \in 1..Len(ins) :
              /\ ins[i].id \in NewRows
              /\ messages[ins[i].id].ChatID = l.req.ChatID
              /\ IF i <= Len(new)
                 THEN /\ ins[i].op = "save message"
                      /\ messages[ins[i].id].Role = new[i].Role
                      /\ messages[ins[i].id].Content = new[i].Content
                 ELSE /\ ins[i].op = "save assistant message"
                      /\ messages[ins[i].id].Role = "assistant"
                      /\ ins[i].id = l.assistantMessage
              /\ \A t \in DOMAIN sub \ {s} :
                    \A j \in 1..Len(Inserts(t)) : Inserts(t)[j].id # ins[i].id

\* rows 3..6 are: user of 1, user of 2, placeholder of 2, placeholder of 1
C21_Witness ==
    /\ DOMAIN sub = {1, 2}
    /\ Len(messages) = Len(InitMessages) + 4
    /\ messages[3].Content = "hi" /\ messages[4].Content = "yo"
    /\ sub[2].assistantMessage = 5
    /\ sub[1].assistantMessage = 6
    /\ messages[5].ChatID = 1 /\ messages[6].ChatID = 1

\* the ids of the stored Turns of a conversation, in creation order
TurnsOf(chatId) ==
    SelectSeq([i \in 1..Len(messages) |-> i], LAMBDA i : messages[i].ChatID = chatId)

\* what a fork copies of a Turn
Copied(row) ==
    <<row.Role, row.Content, row.ModelName,
      row.PromptTokens, row.CompletionTokens, row.TotalTokens>>

\* the requests to HandleForkChat
Forks == {h \in DOMAIN ops : ops[h].kind = "fork"}

(***************************************************************************)
(* C22.  A fork request that was answered 200 has created one Conversation *)
(* whose parent is chatId and whose origin Turn is messageId, and whose    *)
(* Turns are copies of exactly the Turns of chatId created before the Turn *)
(* messageId, for every messageId, one that is not a Turn of chatId        *)
(* included.  For such a messageId the code copies every Turn of chatId.   *)
(***************************************************************************)
C22_ForkCopiesPrefix ==
    \A h \in Forks :
        LET o == ops[h]
            before == SelectSeq(TurnsOf(o.ChatID), LAMBDA i : i < o.MessageID)
            copies == TurnsOf(o.newChat)
        IN  o.pc = "done" =>
            /\ chats[o.newChat].ParentID = o.ChatID
            /\ chats[o.newChat].ForkMessageID = o.MessageID
            /\ Len(copies) = Len(before)
            /\ \A i \in 1..Len(before) :
                  Copied(messages[copies[i]]) = Copied(messages[before[i]])

\* the requests to HandleDeleteChat that were answered 200
Deleted == {h \in DOMAIN ops : ops[h].kind = "delete" /\ ops[h].pc = "done"}

(***************************************************************************)
(* C23.  After HandleDeleteChat(id) the conversation row still exists and  *)
(* carries the deletion marker, no lookup finds the conversation, and no   *)
(* lookup finds a Turn it owns, so none can be read or mutated any more.   *)
(* The code marks the conversation row only: its Turns stay live.          *)
(***************************************************************************)
C23_DeleteCascades ==
    \A h \in Deleted :
        LET id == ops[h].id IN
        /\ id \in 1..Len(chats)
        /\ chats[id].Deleted
        /\ ~FindChat(id)
        /\ \A i \in 1..Len(messages) : messages[i].ChatID = id => ~FindMessage(i)

\* a is a prefix of b
IsPrefix(a, b) == Len(a) <= Len(b) /\ SubSeq(b, 1, Len(a)) = a

(***************************************************************************)
(* C24.  In every state of a streaming submission through HandleChat that  *)
(* has relayed a line, the states after a failure included, the response   *)
(* body is a prefix of the bytes read from upstream: nothing but relayed   *)
(* lines is written to it.  HandleChat appends a JSON error object.        *)
(***************************************************************************)
C24_BodyIsPrefixOfUpstream ==
    \A s \in DOMAIN sub :
        LET l == sub[s] IN
        (l.entry = "HandleChat" /\ l.req.Stream /\ l.written # <<>>) =>
            IsPrefix(ResponseBody(l), l.upstream)

\* the submissions whose placeholder is the row i
PlaceholderOf(i) == {s \in DOMAIN sub : sub[s].assistantMessage = i}

(***************************************************************************)
(* C25.  With two submissions in flight, the content and usage updates of  *)
(* a submission change only the placeholder it inserted itself: every      *)
(* other row keeps the content and the counts it was inserted with, and a  *)
(* placeholder holds what its own submission has written so far.           *)
(***************************************************************************)
C25_UpdatesOwnPlaceholder ==
    /\ \A i \in 1..Len(InitMessages) : messages[i] = InitMessages[i]
    /\ \A i \in NewRows :
          /\ Cardinality(PlaceholderOf(i)) <= 1
          /\ PlaceholderOf(i) = {} =>
                /\ messages[i].Role = "user"
                /\ messages[i].Content \in {"hi", "yo"}
                /\ StoredCounts(i) = <<0, 0, 0>>
          /\ \A s \in PlaceholderOf(i) :
                /\ messages[i].Content =
                      (IF Count(s, "update content") = 1 THEN FinalContent(s) ELSE "")
                /\ StoredCounts(i) =
                      (IF Count(s, "update usage") = 1 THEN ObservedCounts(s)
                       ELSE <<0, 0, 0>>)

\* submission 1 has written its content and counts while the placeholder of
\* submission 2, whose body was relayed, is still empty
C25_Witness ==
    /\ DOMAIN sub = {1, 2}
    /\ sub[1].pc = "returned"
    /\ messages[sub[1].assistantMessage].Content = "!"
    /\ StoredCounts(sub[1].assistantMessage) = <<7, 8, 15>>
    /\ sub[2].pc = "parse"
    /\ sub[2].responseBuffer # <<>>
    /\ messages[sub[2].assistantMessage].Content = ""
    /\ sub[1].chat = sub[2].chat

\* the requests to HandleToggleMessageStar that were answered 200
Starred == {h \in DOMAIN ops : ops[h].kind = "star" /\ ops[h].pc = "done"}

(***************************************************************************)
(* C26.  HandleToggleMessageStar changes only the starred flag: when a     *)
(* toggle of the placeholder and the submission that finalises it have     *)
(* both finished, the content and the token counts the submission wrote    *)
(* are stored, under every interleaving.  DB.Save writes back every column *)
(* of the row as the toggle read it.                                       *)
(***************************************************************************)
C26_StarKeepsContent ==
    \A s \in DOMAIN sub : \A h \in Starred :
        (Succeeded(s) /\ ops[h].id = sub[s].assistantMessage) =>
            /\ messages[sub[s].assistantMessage].Content = FinalContent(s)
            /\ StoredCounts(sub[s].assistantMessage) = ObservedCounts(s)

\* the store effects of submission s: the statements it issued with their
\* outcome and, for every Turn it inserted, what the Turn holds
Effects(s) ==
    << [i \in 1..Len(StatementsOf(dblog, s)) |->
            <<StatementsOf(dblog, s)[i].op, StatementsOf(dblog, s)[i].ok>>],
       [i \in 1..Len(Inserts(s)) |->
            <<messages[Inserts(s)[i].id].ChatID, messages[Inserts(s)[i].id].Role,
              messages[Inserts(s)[i].id].Content, StoredCounts(Inserts(s)[i].id)>>] >>

\* the two runs got the same answers from upstream, from the store and from
\* the caller's connection, and took the same entry
SameRun(s, t) ==
    /\ sub[s].entry = sub[t].entry
    /\ sub[s].pc = sub[t].pc
    /\ sub[s].status = sub[t].status
    /\ sub[s].upstream = sub[t].upstream
    /\ sub[s].written = sub[t].written
    /\ sub[s].err = sub[t].err
    /\ [i \in 1..Len(StatementsOf(dblog, s)) |-> StatementsOf(dblog, s)[i].ok]
         = [i \in 1..Len(StatementsOf(dblog, t)) |-> StatementsOf(dblog, t)[i].ok]

\* the buffer of submission s holds no "data: " record
NoDataRecord(s) ==
    \A i \in 1..Len(Records(sub[s].responseBuffer)) :
        Records(sub[s].responseBuffer)[i] = <<>>
            \/ Records(sub[s].responseBuffer)[i][1] # PFX

(***************************************************************************)
(* C27.  The store effects of a submission do not depend on the stream     *)
(* flag: two runs with the same input turns, one with stream=true and one  *)
(* with stream=false, that got the same answers have issued the same       *)
(* statements and inserted Turns with the same content and counts; the     *)
(* flag only travels in the upstream request; and a successful             *)
(* stream=false run whose body has no "data: " record leaves the           *)
(* placeholder empty.                                                      *)
(***************************************************************************)
C27_StoreEffectsIgnoreStream ==
    /\ \A s, t \in DOMAIN sub :
          (sub[s].req.Stream /\ ~sub[t].req.Stream /\ SameRun(s, t)) =>
              Effects(s) = Effects(t)
    /\ \A s \in DOMAIN sub :
          /\ sub[s].apiReq # <<>> => sub[s].apiReq[1].Stream = sub[s].req.Stream
          /\ (sub[s].pc \in {"read", "write", "parse", "usage", "returned"})
                => HasPlaceholder(s)
          /\ (Succeeded(s) /\ NoDataRecord(s)) =>
                messages[sub[s].assistantMessage].Content = ""

\* the stream=false run relayed a JSON object without prefix and returned
\* success with an empty placeholder, at the point where the stream=true
\* run holds its own
C27_NoDataRecordReached ==
    /\ DOMAIN sub = {1, 2}
    /\ sub[1].req.Stream /\ ~sub[2].req.Stream
    /\ Succeeded(1) /\ Succeeded(2)
    /\ sub[1].upstream = LLast \o <<NL>>
    /\ sub[2].upstream = LBare \o <<NL>>
    /\ sub[2].written = LBare \o <<NL>>
    /\ messages[sub[1].assistantMessage].Content = "!"
    /\ messages[sub[2].assistantMessage].Content = ""

\* both runs relayed the same record and stored the same content and counts
C27_Witness ==
    /\ DOMAIN sub = {1, 2}
    /\ sub[1].req.Stream /\ ~sub[2].req.Stream
    /\ Succeeded(1) /\ Succeeded(2)
    /\ SameRun(1, 2)
    /\ sub[2].upstream = LLast \o <<NL>>
    /\ messages[sub[2].assistantMessage].Content = "!"
    /\ StoredCounts(sub[2].assistantMessage) = <<7, 8, 15>>

(***************************************************************************)
(* C28.  A submission never inserts a Turn into a conversation that is     *)
(* soft-deleted at the time of the insert, under every interleaving with   *)
(* HandleDeleteChat on the same conversation: every step of a submission   *)
(* that adds a row to the Turn table adds it to a live conversation.  The  *)
(* lookups and the inserts are separate statements with no transaction.    *)
(***************************************************************************)
C28_NoInsertIntoDeleted ==
    [][\A s \in DOMAIN sub :
          (sub'[s] # sub[s] /\ Len(messages') > Len(messages)) =>
              ~chats[messages'[Len(messages')].ChatID].Deleted]_vars

\* the Turns of the original conversation of fork request h, as stored
\* before the request
Original(h) ==
    SelectSeq([i \in 1..Len(StoreMessages) |-> i],
              LAMBDA i : StoreMessages[i].ChatID = ops[h].ChatID)

(***************************************************************************)
(* C29.  HandleForkChat never modifies the original conversation or its    *)
(* Turns, and does not roll back: when the insert of a copy fails it       *)
(* answers with an error and the fork Conversation and the copies made so  *)
(* far stay in the store, a strict prefix of the Turns it was copying;     *)
(* when the insert of the fork fails nothing was written.                  *)
(***************************************************************************)
C29_ForkLeavesOriginal ==
    \A h \in Forks :
        LET o == ops[h]
            copies == TurnsOf(o.newChat)
        IN
        /\ \A c \in 1..Len(InitChats) : chats[c] = InitChats[c]
        /\ \A i \in 1..Len(StoreMessages) : messages[i] = StoreMessages[i]
        /\ TurnsOf(o.ChatID) = Original(h)
        /\ o.pc \in {"idle", "not found", "create", "failed to create forked chat"} =>
              (chats = InitChats /\ messages = StoreMessages)
        /\ o.pc \in {"copy", "done", "failed to copy message"} =>
              /\ Len(chats) = Len(InitChats) + 1
              /\ o.newChat = Len(chats)
              /\ chats[o.newChat].ParentID = o.ChatID
              /\ ~chats[o.newChat].Deleted
              /\ Len(messages) = Len(StoreMessages) + Len(copies)
              /\ \A i \in 1..Len(copies) :
                    Copied(messages[copies[i]]) = Copied(StoreMessages[Original(h)[i]])
        /\ o.pc = "failed to copy message" =>
              (Len(copies) < Len(Original(h)) /\ o.header = 0)

\* the fork of conversation 1 at Turn 4 failed on its second copy: the fork
\* and the copy of Turn 1 stay
C29_Witness ==
    \E h \in Forks :
        /\ ops[h].ChatID = 1 /\ ops[h].MessageID = 4
        /\ ops[h].pc = "failed to copy message"
        /\ chats[ops[h].newChat].ParentID = 1
        /\ Len(TurnsOf(ops[h].newChat)) = 1
        /\ messages[Len(messages)].Content = "old"

\* the submissions inside the relay loop: about to read a line, or about to
\* write the line just read
InRelayLoop == {s \in DOMAIN sub : sub[s].pc \in {"read", "write"}}

(***************************************************************************)
(* C30.  Relay and accumulation are one sequential pass.  Before a read    *)
(* the buffer equals the bytes written to the caller; between the append   *)
(* and the write it equals those bytes followed by exactly the line being  *)
(* written; in both states, and in the states the loop is left to, the     *)
(* buffer and the bytes written are prefixes of the bytes read from        *)
(* upstream.                                                               *)
(***************************************************************************)
C30_BufferTracksWritten ==
    \A s \in DOMAIN sub :
        LET l == sub[s] IN
        /\ (s \in InRelayLoop /\ l.pc = "read") => l.responseBuffer = l.written
        /\ (s \in InRelayLoop /\ l.pc = "write") =>
              /\ l.responseBuffer = l.written \o l.line
              /\ l.line # <<>>
              /\ l.line[Len(l.line)] = NL
        /\ l.responseBuffer \in {l.written, l.written \o l.line}
        /\ IsPrefix(l.written, l.responseBuffer)
        /\ IsPrefix(l.responseBuffer, l.upstream)

\* the second line was appended to the buffer and is not yet written
C30_Witness ==
    \E s \in InRelayLoop :
        /\ sub[s].pc = "write"
        /\ sub[s].written # <<>>
        /\ sub[s].responseBuffer = sub[s].written \o sub[s].line
        /\ sub[s].responseBuffer # sub[s].written
        /\ sub[s].upstream = sub[s].responseBuffer
====
